---- MODULE Spec2Model ----
(***************************************************************************)
(* Model of the rsbtc ledger core (lib/src/types.rs, sha256.rs,            *)
(* crypto.rs): Blockchain::add_block, Blockchain::rebuild_utxos and        *)
(* Block::verify_transactions over a bounded universe of keys, outputs,    *)
(* transactions and block headers.                                         *)
(***************************************************************************)
EXTENDS Integers, Sequences, FiniteSets, TLC

(***************************************************************************)
(* Bounds of the model.                                                    *)
(***************************************************************************)
\* longest ledger explored
MaxBlocks == 2
\* header timestamps range over 1..MaxTime
MaxTime == 2
\* longest transaction list of a block offered to verify_transactions
MaxTxs == 2

(***************************************************************************)
(* Machine integers.                                                       *)
(*                                                                         *)
(* U256 / Hash: the digest space is scaled from 256 to HashBits bits, and  *)
(* a hash exports to HashBits \div 8 bytes.                                *)
(*                                                                         *)
(* u64 amounts are kept at their full width as two limbs: the amount       *)
(* [hi |-> h, lo |-> l] is h * 2^62 + l with h < U64Hi (= 2^64 / 2^62) and *)
(* l far below 2^62, so limb sums of the few amounts of one transaction    *)
(* never carry from lo into hi and u64 addition is exactly hi-addition     *)
(* modulo U64Hi together with plain lo-addition.                           *)
(***************************************************************************)
HashBits == 16
HashMod == 2 ^ HashBits
U64Hi == 4

Amount(h, l) == [hi |-> h, lo |-> l]

\* `let mut input_value = 0` / `let mut output_value = 0`
ZeroAmount == Amount(0, 0)

\* u64 `+=` as a release build computes it (wrapping)
WrappingAdd(a, b) == Amount((a.hi + b.hi) % U64Hi, a.lo + b.lo)

\* u64 `+=` leaves the range of u64 (a debug build panics here)
AddOverflows(a, b) == a.hi + b.hi >= U64Hi

\* u64 `<`
AmountLess(a, b) == a.hi < b.hi \/ (a.hi = b.hi /\ a.lo < b.lo)

(***************************************************************************)
(* Hash engine (sha256.rs).  The digest of the canonical encoding is a     *)
(* fixed deterministic mixing of the encoded fields into the hash space.   *)
(***************************************************************************)
RECURSIVE DigestFrom(_, _)
DigestFrom(acc, enc) ==
    IF enc = <<>> THEN acc
    ELSE DigestFrom((acc * 31 + Head(enc) + 7) % HashMod, Tail(enc))

\* sha256::digest over the serialized bytes, read as a U256
Digest(enc) == DigestFrom(5381, enc)

\* Hash::zero()
ZeroHash == 0

\* Hash::matches_target
matches_target(hash, target) == hash <= target

RECURSIVE LittleEndian(_, _)
LittleEndian(n, k) ==
    IF k = 0 THEN <<>> ELSE <<n % 256>> \o LittleEndian(n \div 256, k - 1)

\* Hash::as_bytes
as_bytes(hash) == LittleEndian(hash, HashBits \div 8)

(***************************************************************************)
(* Signatures (crypto.rs).  A private key is a number; an ECDSA signature  *)
(* is the pair of the signing key and the signed message bytes, so that    *)
(* it verifies under exactly the matching public key and message.          *)
(***************************************************************************)
\* PrivateKey::public_key
public_key(sk) == 100 + sk

\* Signature::sign_output
sign_output(output_hash, private_key) ==
    [key |-> private_key, msg |-> as_bytes(output_hash)]

\* Signature::verify
verify(signature, output_hash, pubkey) ==
    /\ public_key(signature.key) = pubkey
    /\ signature.msg = as_bytes(output_hash)

(***************************************************************************)
(* Canonical encodings (serde derive order of the fields) and the hash     *)
(* methods of the ledger types.                                            *)
(***************************************************************************)
RECURSIVE Flatten(_)
Flatten(ss) == IF ss = <<>> THEN <<>> ELSE Head(ss) \o Flatten(Tail(ss))

EncOutput(o) == <<o.value.hi, o.value.lo, o.unique_id, o.pubkey>>

EncInput(i) ==
    <<i.prev_transaction_output_hash, i.signature.key>> \o i.signature.msg

EncTransaction(t) ==
    <<Len(t.inputs)>> \o Flatten([k \in 1..Len(t.inputs) |-> EncInput(t.inputs[k])])
    \o <<Len(t.outputs)>>
    \o Flatten([k \in 1..Len(t.outputs) |-> EncOutput(t.outputs[k])])

EncHeader(h) ==
    <<h.timestamp, h.nonce, h.prev_block_hash, h.merkle_root, h.target>>

EncBlock(b) ==
    EncHeader(b.header) \o <<Len(b.transactions)>>
    \o Flatten([k \in 1..Len(b.transactions) |-> EncTransaction(b.transactions[k])])

\* TransactionOutput::hash
OutputHash(o) == Digest(EncOutput(o))

\* Transaction::hash
TransactionHash(t) == Digest(EncTransaction(t))

\* BlockHeader::hash
HeaderHash(h) == Digest(EncHeader(h))

\* Block::hash
BlockHash(b) == Digest(EncBlock(b))

(***************************************************************************)
(* Merkle root (util.rs, not part of the available sources; after the      *)
(* policy of the specification, section 4.3).                              *)
(***************************************************************************)
RECURSIVE MerkleLevel(_)
MerkleLevel(hs) ==
    IF Len(hs) = 0 THEN <<>>
    ELSE IF Len(hs) = 1 THEN <<Digest(<<hs[1], hs[1]>>)>>
    ELSE <<Digest(<<hs[1], hs[2]>>)>> \o MerkleLevel(Tail(Tail(hs)))

RECURSIVE MerkleFold(_)
MerkleFold(hs) == IF Len(hs) = 1 THEN hs[1] ELSE MerkleFold(MerkleLevel(hs))

\* MerkleRoot::calculate
MerkleRootCalculate(transactions) ==
    IF transactions = <<>> THEN ZeroHash
    ELSE MerkleFold([k \in 1..Len(transactions) |-> TransactionHash(transactions[k])])

(***************************************************************************)
(* HashMap<Hash, TransactionOutput> as a function from hashes to outputs.  *)
(***************************************************************************)
\* HashMap::new()
EmptyMap == <<>>

\* HashMap::insert
MapInsert(m, k, v) == [h \in DOMAIN m \cup {k} |-> IF h = k THEN v ELSE m[h]]

\* HashMap::remove
MapRemove(m, k) == [h \in DOMAIN m \ {k} |-> m[h]]

(***************************************************************************)
(* Ledger types (types.rs).                                                *)
(***************************************************************************)
\* TransactionOutput { value, unique_id, pubkey }
TransactionOutput(value, unique_id, pubkey) ==
    [value |-> value, unique_id |-> unique_id, pubkey |-> pubkey]

\* TransactionInput { prev_transaction_output_hash, signature }
TransactionInput(prev_transaction_output_hash, signature) ==
    [prev_transaction_output_hash |-> prev_transaction_output_hash,
     signature |-> signature]

\* Transaction::new
Transaction(inputs, outputs) == [inputs |-> inputs, outputs |-> outputs]

\* BlockHeader::new
BlockHeader(timestamp, nonce, prev_block_hash, merkle_root, target) ==
    [timestamp |-> timestamp, nonce |-> nonce,
     prev_block_hash |-> prev_block_hash, merkle_root |-> merkle_root,
     target |-> target]

\* Block::new
Block(header, transactions) == [header |-> header, transactions |-> transactions]

(***************************************************************************)
(* Block::verify_transactions.  Each operator returns the result of the    *)
(* wrapping (release) execution together with ovf, which tells whether a   *)
(* u64 addition on the executed path overflowed; a build with overflow     *)
(* checks panics at that addition instead.                                 *)
(***************************************************************************)
\* the loop over the inputs without the signature check
RECURSIVE verify_inputs_unsigned(_, _, _, _, _)
verify_inputs_unsigned(ins, utxo_set, inputs, input_value, ovf) ==
    IF ins = <<>>
    THEN [err |-> FALSE, input_value |-> input_value, ovf |-> ovf]
    ELSE LET input == Head(ins)
             h == input.prev_transaction_output_hash
         IN IF h \notin DOMAIN utxo_set \/ h \in DOMAIN inputs
            THEN [err |-> TRUE, input_value |-> input_value, ovf |-> ovf]
            ELSE verify_inputs_unsigned(Tail(ins), utxo_set,
                               MapInsert(inputs, h, utxo_set[h]),
                               WrappingAdd(input_value, utxo_set[h].value),
                               ovf \/ AddOverflows(input_value, utxo_set[h].value))

\* the loop over the inputs passing over an input whose output is not in the
\* map instead of returning the error
RECURSIVE verify_inputs_skip_missing(_, _, _, _, _)
verify_inputs_skip_missing(ins, utxo_set, inputs, input_value, ovf) ==
    IF ins = <<>>
    THEN [err |-> FALSE, input_value |-> input_value, ovf |-> ovf]
    ELSE LET input == Head(ins)
             h == input.prev_transaction_output_hash
         IN IF h \notin DOMAIN utxo_set
            THEN verify_inputs_skip_missing(Tail(ins), utxo_set, inputs,
                                            input_value, ovf)
            ELSE IF h \in DOMAIN inputs
            THEN [err |-> TRUE, input_value |-> input_value, ovf |-> ovf]
            ELSE IF ~verify(input.signature, h, utxo_set[h].pubkey)
            THEN [err |-> TRUE, input_value |-> input_value, ovf |-> ovf]
            ELSE verify_inputs_skip_missing(Tail(ins), utxo_set,
                               MapInsert(inputs, h, utxo_set[h]),
                               WrappingAdd(input_value, utxo_set[h].value),
                               ovf \/ AddOverflows(input_value, utxo_set[h].value))

\* the loop over transaction.inputs (types.rs 108-131)
RECURSIVE verify_inputs(_, _, _, _, _)
verify_inputs(ins, utxo_set, inputs, input_value, ovf) ==
    IF ins = <<>>
    THEN [err |-> FALSE, input_value |-> input_value, ovf |-> ovf]
    ELSE LET input == Head(ins)
             h == input.prev_transaction_output_hash
         IN IF h \notin DOMAIN utxo_set
            THEN [err |-> TRUE, input_value |-> input_value, ovf |-> ovf]
            ELSE IF h \in DOMAIN inputs
            THEN [err |-> TRUE, input_value |-> input_value, ovf |-> ovf]
            ELSE IF ~verify(input.signature, h, utxo_set[h].pubkey)
            THEN [err |-> TRUE, input_value |-> input_value, ovf |-> ovf]
            ELSE verify_inputs(Tail(ins), utxo_set,
                               MapInsert(inputs, h, utxo_set[h]),
                               WrappingAdd(input_value, utxo_set[h].value),
                               ovf \/ AddOverflows(input_value, utxo_set[h].value))

\* the loop over transaction.outputs (types.rs 135-137)
RECURSIVE sum_outputs(_, _, _)
sum_outputs(outs, output_value, ovf) ==
    IF outs = <<>>
    THEN [output_value |-> output_value, ovf |-> ovf]
    ELSE sum_outputs(Tail(outs), WrappingAdd(output_value, Head(outs).value),
                     ovf \/ AddOverflows(output_value, Head(outs).value))

\* the body of the loop over self.transactions (types.rs 102-142)
verify_transaction(transaction, utxo_set) ==
    LET i == verify_inputs(transaction.inputs, utxo_set, EmptyMap, ZeroAmount, FALSE)
    IN IF i.err
       THEN [res |-> "InvalidTransaction", ovf |-> i.ovf]
       ELSE LET o == sum_outputs(transaction.outputs, ZeroAmount, i.ovf)
            IN IF AmountLess(i.input_value, o.output_value)
               THEN [res |-> "InvalidTransaction", ovf |-> o.ovf]
               ELSE [res |-> "Ok", ovf |-> o.ovf]

\* the loop over the transactions resolving each transaction against the map
\* as the transactions before it in the block leave it
RECURSIVE verify_each_chained(_, _, _)
verify_each_chained(txs, utxo_set, ovf) ==
    IF txs = <<>>
    THEN [res |-> "Ok", ovf |-> ovf]
    ELSE LET r == verify_transaction(Head(txs), utxo_set)
         IN IF r.res # "Ok"
            THEN [res |-> r.res, ovf |-> ovf \/ r.ovf]
            ELSE verify_each_chained(
                     Tail(txs),
                     [h \in (DOMAIN utxo_set
                               \ {Head(txs).inputs[i].prev_transaction_output_hash :
                                    i \in 1..Len(Head(txs).inputs)})
                            \cup {Digest(EncOutput(Head(txs).outputs[i])) :
                                    i \in 1..Len(Head(txs).outputs)} |->
                        IF \E i \in 1..Len(Head(txs).outputs) :
                               Digest(EncOutput(Head(txs).outputs[i])) = h
                        THEN Head(txs).outputs[
                                 CHOOSE i \in 1..Len(Head(txs).outputs) :
                                     Digest(EncOutput(Head(txs).outputs[i])) = h]
                        ELSE utxo_set[h]],
                     ovf \/ r.ovf)

\* the loop over self.transactions (types.rs 102-143)
RECURSIVE verify_each(_, _, _)
verify_each(txs, utxo_set, ovf) ==
    IF txs = <<>>
    THEN [res |-> "Ok", ovf |-> ovf]
    ELSE LET r == verify_transaction(Head(txs), utxo_set)
         IN IF r.res # "Ok"
            THEN [res |-> r.res, ovf |-> ovf \/ r.ovf]
            ELSE verify_each(Tail(txs), utxo_set, ovf \/ r.ovf)

\* Block::verify_transactions
verify_transactions(block, utxo_set) ==
    IF block.transactions = <<>>
    THEN [res |-> "InvalidTransaction", ovf |-> FALSE]
    ELSE verify_each(block.transactions, utxo_set, FALSE)

\* what a call of verify_transactions can end in: the wrapping result, or a
\* panic when an addition on the way overflowed
verify_outcomes(block, utxo_set) ==
    LET r == verify_transactions(block, utxo_set)
    IN IF r.ovf THEN {r.res, "panic"} ELSE {r.res}

(***************************************************************************)
(* Blockchain::rebuild_utxos.                                              *)
(***************************************************************************)
RECURSIVE remove_inputs(_, _)
remove_inputs(m, ins) ==
    IF ins = <<>> THEN m
    ELSE remove_inputs(MapRemove(m, Head(ins).prev_transaction_output_hash), Tail(ins))

RECURSIVE insert_outputs(_, _)
insert_outputs(m, outs) ==
    IF outs = <<>> THEN m
    ELSE insert_outputs(MapInsert(m, OutputHash(Head(outs)), Head(outs)), Tail(outs))

\* a replay that applies a transaction only when the map holds every output
\* its inputs reference
RECURSIVE replay_transactions_skip_unfunded(_, _)
replay_transactions_skip_unfunded(m, txs) ==
    IF txs = <<>> THEN m
    ELSE IF \A i \in 1..Len(Head(txs).inputs) :
                Head(txs).inputs[i].prev_transaction_output_hash \in DOMAIN m
    THEN replay_transactions_skip_unfunded(
             insert_outputs(remove_inputs(m, Head(txs).inputs), Head(txs).outputs),
             Tail(txs))
    ELSE replay_transactions_skip_unfunded(m, Tail(txs))

\* the loop over block.transactions of rebuild_utxos
RECURSIVE replay_transactions(_, _)
replay_transactions(m, txs) ==
    IF txs = <<>> THEN m
    ELSE replay_transactions(
             insert_outputs(remove_inputs(m, Head(txs).inputs), Head(txs).outputs),
             Tail(txs))

\* the loop over self.blocks of rebuild_utxos, run on the map m
RECURSIVE rebuild_utxos_from(_, _)
rebuild_utxos_from(m, bs) ==
    IF bs = <<>> THEN m
    ELSE rebuild_utxos_from(replay_transactions(m, Head(bs).transactions), Tail(bs))

(***************************************************************************)
(* Blockchain::add_block: what the call ends in on the block sequence bs.  *)
(***************************************************************************)
\* add_block without the check of the first block's prev_block_hash
add_block_result_unchecked_genesis(bs, block) == "Ok"

add_block_result(bs, block) ==
    IF bs = <<>>
    THEN IF block.header.prev_block_hash # ZeroHash
         THEN "InvalidBlock"
         ELSE \* self.blocks.last().unwrap()
              IF Len(bs) = 0
              THEN "panic"
              ELSE LET last_block == bs[Len(bs)]
                   IN IF block.header.prev_block_hash # BlockHash(last_block)
                      THEN "InvalidBlock"
                      ELSE IF ~matches_target(HeaderHash(block.header), block.header.target)
                      THEN "InvalidBlock"
                      ELSE IF MerkleRootCalculate(block.transactions) # block.header.merkle_root
                      THEN "InvalidMerkleRoot"
                      ELSE IF block.header.timestamp <= last_block.header.timestamp
                      THEN "InvalidBlock"
                      ELSE \* unimplemented!()
                           "panic"
    ELSE "Ok"

\* add_block pushing the block before it is validated
add_block_blocks_push_first(bs, block) == Append(bs, block)

\* add_block storing the accepted block in place of the tip
add_block_blocks_replace_tip(bs, block) ==
    IF bs = <<>> THEN bs ELSE SubSeq(bs, 1, Len(bs) - 1) \o <<block>>

\* the block sequence add_block leaves: `self.blocks.push(block)` is reached
\* only when no check returned before it
add_block_blocks(bs, block) ==
    IF add_block_result(bs, block) = "Ok" THEN Append(bs, block) ELSE bs

(***************************************************************************)
(* The universe the inputs are drawn from.                                 *)
(***************************************************************************)
\* 50 to key 1, 30 and 60 to key 2, nothing to key 1, and two of 2^63 to key 2
Out50 == TransactionOutput(Amount(0, 50), 1, public_key(1))
Out30 == TransactionOutput(Amount(0, 30), 2, public_key(2))
Out60 == TransactionOutput(Amount(0, 60), 3, public_key(2))
OutZero == TransactionOutput(Amount(0, 0), 4, public_key(1))
OutHuge == TransactionOutput(Amount(2, 0), 5, public_key(2))
OutHuge2 == TransactionOutput(Amount(2, 0), 6, public_key(2))

\* an input spending output o, signed with private key sk over o's hash
Spend(o, sk) == TransactionInput(OutputHash(o), sign_output(OutputHash(o), sk))

\* an input spending output o, signed with sk over the hash of another output
SpendOver(o, other, sk) ==
    TransactionInput(OutputHash(o), sign_output(OutputHash(other), sk))

TxGenesis == Transaction(<<>>, <<Out50>>)
TxSpend == Transaction(<<Spend(Out50, 1)>>, <<Out30>>)
TxOverspend == Transaction(<<Spend(Out50, 1)>>, <<Out60>>)

\* transaction lists of the blocks offered to add_block
LedgerTxLists == {<<TxGenesis>>, <<TxSpend>>, <<TxOverspend>>}

\* a hash that is no block's hash and no list's Merkle root
OtherHash == Digest(<<0>>)

\* header.target: every hash matches the first, about half match the second
Targets == {HashMod - 1, HashMod \div 2}

\* header.prev_block_hash: zero, the tip's hash, another hash
PrevChoices(bs) ==
    {ZeroHash, OtherHash} \cup (IF bs = <<>> THEN {} ELSE {BlockHash(bs[Len(bs)])})

\* the blocks offered to add_block on the block sequence bs
Candidates(bs) ==
    UNION {
        { Block(BlockHeader(ts, 0, prev, root, target), txs) :
            ts \in 1..MaxTime, prev \in PrevChoices(bs), target \in Targets,
            root \in {MerkleRootCalculate(txs), OtherHash} } :
        txs \in LedgerTxLists }

\* a ledger as a node that enforces every rule of the pipeline saved it:
\* one genesis block and the outputs it created
SavedLedger(ts) ==
    LET txs == <<TxGenesis>>
        genesis == Block(BlockHeader(ts, 0, ZeroHash, MerkleRootCalculate(txs),
                                     HashMod - 1), txs)
    IN [blocks |-> <<genesis>>,
        utxos |-> rebuild_utxos_from(EmptyMap, <<genesis>>)]

SavedLedgers == {SavedLedger(ts) : ts \in 1..MaxTime - 1}

\* transactions of the blocks handed to verify_transactions
VerifyTxs ==
    { TxSpend,
      TxOverspend,
      Transaction(<<Spend(Out30, 2)>>, <<OutZero>>),
      Transaction(<<Spend(Out50, 1), Spend(Out50, 1)>>, <<Out60>>),
      Transaction(<<Spend(Out50, 1), Spend(Out30, 2)>>, <<Out60>>),
      Transaction(<<Spend(Out50, 2)>>, <<Out30>>),
      Transaction(<<SpendOver(Out50, Out30, 1)>>, <<Out30>>),
      Transaction(<<Spend(Out50, 1)>>, <<OutHuge>>),
      Transaction(<<Spend(Out50, 1)>>, <<OutHuge, OutHuge2>>),
      Transaction(<<>>, <<>>),
      Transaction(<<>>, <<OutZero>>),
      TxGenesis }

RECURSIVE SeqsUpTo(_, _)
SeqsUpTo(S, n) ==
    IF n = 0 THEN {<<>>}
    ELSE LET shorter == SeqsUpTo(S, n - 1)
         IN shorter \cup {Append(q, x) : q \in shorter, x \in S}

VerifyBlocks ==
    { Block(BlockHeader(1, 0, ZeroHash, MerkleRootCalculate(txs), HashMod - 1), txs) :
        txs \in SeqsUpTo(VerifyTxs, MaxTxs) }

\* the UTXO maps handed to verify_transactions
VerifyUtxos ==
    { EmptyMap,
      insert_outputs(EmptyMap, <<Out50>>),
      insert_outputs(EmptyMap, <<Out50, Out30>>) }

(***************************************************************************)
(* State.  blocks and utxos are the fields of the Blockchain; the others   *)
(* record the last call: its name, the block it was given, what it ended   *)
(* in, and the fields as they were when it was made.                       *)
(***************************************************************************)
VARIABLES blocks, utxos, op, offered, result, pre_blocks, pre_utxos

vars == <<blocks, utxos, op, offered, result, pre_blocks, pre_utxos>>

NoBlock == Block(BlockHeader(0, 0, ZeroHash, ZeroHash, 0), <<>>)

\* Blockchain::new
Init ==
    /\ blocks = <<>>
    /\ utxos = EmptyMap
    /\ op = "new"
    /\ offered = NoBlock
    /\ result = "none"
    /\ pre_blocks = <<>>
    /\ pre_utxos = EmptyMap

\* #[derive(Deserialize)] on Blockchain: a saved ledger is loaded in place of
\* the fresh one
Deserialize ==
    /\ op = "new"
    /\ \E ledger \in SavedLedgers :
        /\ blocks' = ledger.blocks
        /\ utxos' = ledger.utxos
        /\ pre_blocks' = ledger.blocks
        /\ pre_utxos' = ledger.utxos
    /\ op' = "deserialize"
    /\ UNCHANGED <<offered, result>>

\* Blockchain::add_block; a panic unwinds and ends the run
add_block(block) ==
    /\ result # "panic"
    /\ Len(blocks) < MaxBlocks
    /\ result' = add_block_result(blocks, block)
    /\ blocks' = add_block_blocks(blocks, block)
    /\ utxos' = utxos
    /\ op' = "add_block"
    /\ offered' = block
    /\ pre_blocks' = blocks
    /\ pre_utxos' = utxos

AddBlock == \E block \in Candidates(blocks) : add_block(block)

\* Blockchain::rebuild_utxos
rebuild_utxos ==
    /\ result # "panic"
    /\ utxos' = rebuild_utxos_from(utxos, blocks)
    /\ op' = "rebuild_utxos"
    /\ result' = "none"
    /\ offered' = NoBlock
    /\ pre_blocks' = blocks
    /\ pre_utxos' = utxos
    /\ UNCHANGED blocks

Next == Deserialize \/ AddBlock \/ rebuild_utxos

Spec == Init /\ [][Next]_vars

(***************************************************************************)
(* Block::verify_transactions as a function of its two arguments: Init     *)
(* draws the block and the UTXO map, the one action makes the call.        *)
(***************************************************************************)
InitVerify ==
    /\ blocks = <<>>
    /\ utxos \in VerifyUtxos
    /\ op = "input"
    /\ offered \in VerifyBlocks
    /\ result = "none"
    /\ pre_blocks = <<>>
    /\ pre_utxos = utxos

VerifyTransactions ==
    /\ op = "input"
    /\ result' \in verify_outcomes(offered, utxos)
    /\ op' = "verify_transactions"
    /\ UNCHANGED <<blocks, utxos, offered, pre_blocks, pre_utxos>>

NextVerify == VerifyTransactions

SpecVerify == InitVerify /\ [][NextVerify]_vars

(***************************************************************************)
(* Blockchain::rebuild_utxos as a function of the two fields it reads:     *)
(* Init draws the block sequence and the map the call starts from (both    *)
(* fields are public and deserializable), the action makes the call.       *)
(***************************************************************************)
\* spends the 60-value output and creates the 50-value one
TxRefund == Transaction(<<Spend(Out60, 2)>>, <<Out50>>)

RebuildTxLists == {<<TxGenesis>>, <<TxSpend>>, <<TxRefund>>, <<TxSpend, TxRefund>>}

RebuildBlocks ==
    { Block(BlockHeader(1, 0, ZeroHash, MerkleRootCalculate(txs), HashMod - 1), txs) :
        txs \in RebuildTxLists }

RebuildLedgers == SeqsUpTo(RebuildBlocks, MaxBlocks)

\* the map holding exactly the outputs of S
MapOf(S) ==
    [h \in {OutputHash(o) : o \in S} |-> CHOOSE o \in S : OutputHash(o) = h]

RebuildUtxos == {MapOf(S) : S \in SUBSET {Out50, Out30, Out60}}

InitRebuild ==
    /\ blocks \in RebuildLedgers
    /\ utxos \in RebuildUtxos
    /\ op = "input"
    /\ offered = NoBlock
    /\ result = "none"
    /\ pre_blocks = blocks
    /\ pre_utxos = utxos

NextRebuild == rebuild_utxos

SpecRebuild == InitRebuild /\ [][NextRebuild]_vars

(***************************************************************************)
(* The stages of the append pipeline as the specification states them      *)
(* (section 4.6), for a block b offered on block sequence bs and UTXO map  *)
(* u.                                                                      *)
(***************************************************************************)
Tip(bs) == bs[Len(bs)]

LinkageOk(bs, b) ==
    IF bs = <<>> THEN b.header.prev_block_hash = ZeroHash
    ELSE b.header.prev_block_hash = BlockHash(Tip(bs))

PowOk(b) == HeaderHash(b.header) <= b.header.target

MerkleOk(b) == b.header.merkle_root = MerkleRootCalculate(b.transactions)

TimestampOk(bs, b) == bs = <<>> \/ b.header.timestamp > Tip(bs).header.timestamp

TransactionsOk(b, u) == verify_transactions(b, u).res = "Ok"

PassesEveryStage(bs, u, b) ==
    /\ LinkageOk(bs, b)
    /\ PowOk(b)
    /\ MerkleOk(b)
    /\ TimestampOk(bs, b)
    /\ TransactionsOk(b, u)

\* the hashes the inputs of block b reference
SpentBy(b) ==
    UNION { { b.transactions[t].inputs[i].prev_transaction_output_hash :
                i \in 1..Len(b.transactions[t].inputs) } :
            t \in 1..Len(b.transactions) }

\* the outputs the transactions of block b create
CreatedBy(b) ==
    UNION { { b.transactions[t].outputs[i] : i \in 1..Len(b.transactions[t].outputs) } :
            t \in 1..Len(b.transactions) }

\* u with the outputs b spends removed and the outputs b creates inserted
\* under their own hashes
DiffApplied(u, b) ==
    LET created == CreatedBy(b)
        keys == (DOMAIN u \ SpentBy(b)) \cup {OutputHash(o) : o \in created}
    IN [h \in keys |->
          IF \E o \in created : OutputHash(o) = h
          THEN CHOOSE o \in created : OutputHash(o) = h
          ELSE u[h]]

AddBlockCalled == op = "add_block"

(***************************************************************************)
(* C1. Commit is all-or-nothing: whenever add_block does not accept the    *)
(* offered block, the block sequence and the UTXO set are what they were   *)
(* before the call.                                                        *)
(***************************************************************************)
C1_AllOrNothing ==
    (AddBlockCalled /\ result # "Ok") =>
        (blocks = pre_blocks /\ utxos = pre_utxos)

\* a block was refused at the linkage stage
C1_Witness ==
    /\ AddBlockCalled
    /\ result = "InvalidBlock"
    /\ ~LinkageOk(pre_blocks, offered)
    /\ blocks = pre_blocks

(***************************************************************************)
(* C2. A block that passes every validation stage is accepted: add_block   *)
(* returns Ok, the block becomes the new tip of a ledger one longer, and   *)
(* the UTXO set is the previous one with the spent outputs removed and the *)
(* created outputs inserted.                                               *)
(***************************************************************************)
C2_ValidBlockCommitted ==
    (AddBlockCalled /\ PassesEveryStage(pre_blocks, pre_utxos, offered)) =>
        /\ result = "Ok"
        /\ blocks = Append(pre_blocks, offered)
        /\ utxos = DiffApplied(pre_utxos, offered)

(***************************************************************************)
(* C3. Genesis acceptance: on an empty ledger add_block accepts a block    *)
(* only if its prev_block_hash is the zero hash; with any other            *)
(* prev_block_hash it returns InvalidBlock and the ledger stays empty.     *)
(***************************************************************************)
C3_GenesisAcceptance ==
    (AddBlockCalled /\ pre_blocks = <<>>) =>
        /\ result = "Ok" => offered.header.prev_block_hash = ZeroHash
        /\ offered.header.prev_block_hash # ZeroHash =>
              (result = "InvalidBlock" /\ blocks = <<>>)

\* a first block with a non-zero prev_block_hash was refused
C3_Witness ==
    /\ AddBlockCalled
    /\ pre_blocks = <<>>
    /\ offered.header.prev_block_hash # ZeroHash
    /\ result = "InvalidBlock"
    /\ blocks = <<>>

(***************************************************************************)
(* C4. Linkage: on a non-empty ledger add_block accepts a block only if    *)
(* its prev_block_hash is the hash of the tip, and otherwise returns       *)
(* InvalidBlock without appending; so the first block of every ledger      *)
(* has the zero hash as prev_block_hash and every later block the hash of  *)
(* its predecessor.                                                        *)
(***************************************************************************)
C4_Linkage ==
    /\ (AddBlockCalled /\ pre_blocks # <<>> /\ ~LinkageOk(pre_blocks, offered)) =>
          (result = "InvalidBlock" /\ blocks = pre_blocks)
    /\ blocks # <<>> => blocks[1].header.prev_block_hash = ZeroHash
    /\ \A i \in 2..Len(blocks) :
          blocks[i].header.prev_block_hash = BlockHash(blocks[i - 1])

(***************************************************************************)
(* C5. Proof-of-work: add_block accepts a block only if the hash of its    *)
(* header is at most header.target, and refuses a header hash above the    *)
(* target; so every block of the ledger has header.hash() <= target.       *)
(* (A call that panics is the subject of C16 and is left aside here, as in *)
(* C6 and C8.)                                                             *)
(***************************************************************************)
C5_ProofOfWork ==
    /\ (AddBlockCalled /\ result = "Ok") => PowOk(offered)
    /\ (AddBlockCalled /\ ~PowOk(offered) /\ result # "panic") =>
          (result = "InvalidBlock" /\ blocks = pre_blocks)
    /\ \A i \in 1..Len(blocks) : PowOk(blocks[i])

(***************************************************************************)
(* C6. Merkle integrity: add_block accepts a block only if its declared    *)
(* merkle_root is the root calculated from its transactions; a block past  *)
(* linkage and proof-of-work with another root gets InvalidMerkleRoot; so  *)
(* every block of the ledger carries the root of its own transactions.     *)
(***************************************************************************)
C6_MerkleIntegrity ==
    /\ (AddBlockCalled /\ LinkageOk(pre_blocks, offered) /\ PowOk(offered)
          /\ ~MerkleOk(offered) /\ result # "panic") =>
          (result = "InvalidMerkleRoot" /\ blocks = pre_blocks)
    /\ (AddBlockCalled /\ result = "Ok") => MerkleOk(offered)
    /\ \A i \in 1..Len(blocks) : MerkleOk(blocks[i])

(***************************************************************************)
(* C7. Timestamp monotonicity: on a non-empty ledger add_block accepts a   *)
(* block only if its timestamp is strictly after the tip's (an equal       *)
(* timestamp gets InvalidBlock); so timestamps strictly increase along     *)
(* every ledger.                                                           *)
(***************************************************************************)
C7_TimestampMonotonic ==
    /\ (AddBlockCalled /\ result = "Ok") => TimestampOk(pre_blocks, offered)
    /\ (AddBlockCalled /\ LinkageOk(pre_blocks, offered) /\ PowOk(offered)
          /\ MerkleOk(offered) /\ ~TimestampOk(pre_blocks, offered)) =>
          result = "InvalidBlock"
    /\ \A i \in 2..Len(blocks) :
          blocks[i].header.timestamp > blocks[i - 1].header.timestamp

(***************************************************************************)
(* C8. Transaction validity gate: add_block returns Ok only if             *)
(* verify_transactions accepts the block on the UTXO set as it was before  *)
(* the call; a block past the four earlier stages whose transactions fail  *)
(* gets InvalidTransaction.                                                *)
(***************************************************************************)
C8_TransactionGate ==
    /\ (AddBlockCalled /\ result = "Ok") => TransactionsOk(offered, pre_utxos)
    /\ (AddBlockCalled /\ LinkageOk(pre_blocks, offered) /\ PowOk(offered)
          /\ MerkleOk(offered) /\ TimestampOk(pre_blocks, offered)
          /\ ~TransactionsOk(offered, pre_utxos) /\ result # "panic") =>
          result = "InvalidTransaction"

(***************************************************************************)
(* C9. No double-spend within one block: verify_transactions returns       *)
(* InvalidTransaction for every block in which two inputs, of one          *)
(* transaction or of two, reference the same output hash.  (A call in      *)
(* which a sum of amounts overflows is the subject of C10 and is left      *)
(* aside.)                                                                 *)
(***************************************************************************)
\* the inputs of block b as <<transaction index, input index>> positions
InputPositions(b) ==
    UNION { { <<t, i>> : i \in 1..Len(b.transactions[t].inputs) } :
            t \in 1..Len(b.transactions) }

RefAt(b, pos) == b.transactions[pos[1]].inputs[pos[2]].prev_transaction_output_hash

DoubleSpends(b) ==
    \E p, q \in InputPositions(b) : p # q /\ RefAt(b, p) = RefAt(b, q)

VerifyCalled == op = "verify_transactions"

C9_NoDoubleSpend ==
    (VerifyCalled /\ DoubleSpends(offered)
        /\ ~verify_transactions(offered, utxos).ovf) =>
        result = "InvalidTransaction"

(***************************************************************************)
(* C10. No value creation: verify_transactions returns Ok only if in every *)
(* transaction of the block the unbounded sum of the values of the outputs *)
(* its inputs resolve to is at least the unbounded sum of the values of    *)
(* its outputs.                                                            *)
(***************************************************************************)
RECURSIVE TrueSum(_)
TrueSum(amounts) ==
    IF amounts = <<>> THEN ZeroAmount
    ELSE LET rest == TrueSum(Tail(amounts))
         IN Amount(Head(amounts).hi + rest.hi, Head(amounts).lo + rest.lo)

TrueInputValue(tx, u) ==
    TrueSum([i \in 1..Len(tx.inputs) |->
                u[tx.inputs[i].prev_transaction_output_hash].value])

TrueOutputValue(tx) == TrueSum([i \in 1..Len(tx.outputs) |-> tx.outputs[i].value])

C10_NoValueCreation ==
    (VerifyCalled /\ result = "Ok") =>
        \A t \in 1..Len(offered.transactions) :
            /\ \A i \in 1..Len(offered.transactions[t].inputs) :
                  offered.transactions[t].inputs[i].prev_transaction_output_hash
                      \in DOMAIN utxos
            /\ ~AmountLess(TrueInputValue(offered.transactions[t], utxos),
                           TrueOutputValue(offered.transactions[t]))

(***************************************************************************)
(* C11. Spend authorization: verify_transactions returns Ok only if the    *)
(* signature of every input verifies under the public key stored in the    *)
(* output the input references, with the hash of that output as the signed *)
(* message; a call that returns on a block with an input signed by another *)
(* key, or over another hash, returns InvalidTransaction.                  *)
(***************************************************************************)
InputAt(b, pos) == b.transactions[pos[1]].inputs[pos[2]]

\* the input at pos references an output of u and is signed by the owner of
\* that output over the hash of that output
Authorized(b, pos, u) ==
    /\ RefAt(b, pos) \in DOMAIN u
    /\ public_key(InputAt(b, pos).signature.key) = u[RefAt(b, pos)].pubkey
    /\ InputAt(b, pos).signature.msg = as_bytes(RefAt(b, pos))

\* the input at pos references an output of u without being authorized
BadlySigned(b, pos, u) == RefAt(b, pos) \in DOMAIN u /\ ~Authorized(b, pos, u)

Returned == VerifyCalled /\ result # "panic"

Unresolved(b, u) == {pos \in InputPositions(b) : RefAt(b, pos) \notin DOMAIN u}

C12_OnlyExistingOutputs ==
    /\ (VerifyCalled /\ result = "Ok") => Unresolved(offered, utxos) = {}
    /\ (Returned /\ Unresolved(offered, utxos) # {}) => result = "InvalidTransaction"

\* a block was refused in which an input references an output that is not in
\* the set, after a first transaction that is valid
C12_Witness ==
    /\ VerifyCalled
    /\ result = "InvalidTransaction"
    /\ Len(offered.transactions) = 2
    /\ verify_transaction(offered.transactions[1], utxos).res = "Ok"
    /\ \E pos \in Unresolved(offered, utxos) : pos[1] = 2

(***************************************************************************)
(* C13. A call of verify_transactions that returns on a block with an      *)
(* empty transaction list, or with a transaction that has no inputs        *)
(* (whatever its outputs), returns InvalidTransaction.                     *)
(***************************************************************************)
HasInputlessTransaction(b) ==
    \E t \in 1..Len(b.transactions) : b.transactions[t].inputs = <<>>

C13_EmptyRejected ==
    (Returned /\ (offered.transactions = <<>> \/ HasInputlessTransaction(offered))) =>
        result = "InvalidTransaction"

RebuildCalled == op = "rebuild_utxos"

C15_RebuildFromScratch ==
    RebuildCalled => utxos = rebuild_utxos_from(EmptyMap, blocks)

(***************************************************************************)
(* C19. rebuild_utxos is idempotent: after one call a second call changes  *)
(* nothing.  For a hash the blocks touch, presence and value are decided   *)
(* by the last remove or insert on it in replay order; a hash they do not  *)
(* touch keeps its prior state.                                            *)
(***************************************************************************)
\* the removes and inserts of one transaction, in the order of the replay
TransactionOps(t) ==
    [i \in 1..Len(t.inputs) |-> <<"remove", t.inputs[i].prev_transaction_output_hash>>]
    \o [i \in 1..Len(t.outputs) |-> <<"insert", OutputHash(t.outputs[i]), t.outputs[i]>>]

BlockOps(b) ==
    Flatten([t \in 1..Len(b.transactions) |-> TransactionOps(b.transactions[t])])

ReplayOps(bs) == Flatten([k \in 1..Len(bs) |-> BlockOps(bs[k])])

\* the last operation of ops on hash h, <<"none", h>> when there is none
LastOpOn(ops, h) ==
    LET at == {i \in 1..Len(ops) : ops[i][2] = h}
    IN IF at = {} THEN <<"none", h>>
       ELSE ops[CHOOSE i \in at : \A j \in at : j <= i]

DecidedByLastOp(before, after, bs) ==
    LET ops == ReplayOps(bs)
        hashes == DOMAIN before \cup DOMAIN after \cup {ops[i][2] : i \in 1..Len(ops)}
    IN \A h \in hashes :
          LET last == LastOpOn(ops, h)
          IN CASE last[1] = "remove" -> h \notin DOMAIN after
               [] last[1] = "insert" -> h \in DOMAIN after /\ after[h] = last[3]
               [] OTHER -> /\ h \in DOMAIN after <=> h \in DOMAIN before
                           /\ h \in DOMAIN after => after[h] = before[h]

C19_RebuildIdempotent ==
    RebuildCalled =>
        /\ rebuild_utxos_from(utxos, blocks) = utxos
        /\ DecidedByLastOp(pre_utxos, utxos, blocks)

\* a rebuild over two blocks that removed an entry, inserted another and left
\* an untouched one in place
C19_Witness ==
    /\ RebuildCalled
    /\ Len(blocks) = 2
    /\ DOMAIN pre_utxos \ DOMAIN utxos # {}
    /\ DOMAIN utxos \ DOMAIN pre_utxos # {}
    /\ \E h \in DOMAIN utxos \cap DOMAIN pre_utxos :
          LastOpOn(ReplayOps(blocks), h)[1] = "none"

(***************************************************************************)
(* C16. Definitive result: every call of add_block ends by returning Ok or *)
(* one of the error kinds; it never panics.                                *)
(***************************************************************************)
C16_DefinitiveResult ==
    AddBlockCalled =>
        result \in {"Ok", "InvalidBlock", "InvalidMerkleRoot", "InvalidTransaction"}

(***************************************************************************)
(* C17. Stage ordering: add_block checks linkage, proof-of-work, Merkle    *)
(* root, timestamp and transactions in this order, returns the error of    *)
(* the earliest stage the block fails, and commits only a block that       *)
(* passed all five.  (A call that panics is the subject of C16 and is left *)
(* aside.)                                                                 *)
(***************************************************************************)
ExpectedResult(bs, u, b) ==
    IF ~LinkageOk(bs, b) THEN "InvalidBlock"
    ELSE IF ~PowOk(b) THEN "InvalidBlock"
    ELSE IF ~MerkleOk(b) THEN "InvalidMerkleRoot"
    ELSE IF ~TimestampOk(bs, b) THEN "InvalidBlock"
    ELSE IF ~TransactionsOk(b, u) THEN "InvalidTransaction"
    ELSE "Ok"

C17_StageOrdering ==
    (AddBlockCalled /\ result # "panic") =>
        /\ result = ExpectedResult(pre_blocks, pre_utxos, offered)
        /\ blocks # pre_blocks => PassesEveryStage(pre_blocks, pre_utxos, offered)

(***************************************************************************)
(* C18. Append-only ledger: the block sequence before a call of add_block  *)
(* is a prefix of the one after it; it is one longer, with the offered     *)
(* block last, when the call returns Ok and the same when it does not;     *)
(* rebuild_utxos leaves the block sequence as it is.                       *)
(***************************************************************************)
IsPrefix(p, q) == Len(p) <= Len(q) /\ SubSeq(q, 1, Len(p)) = p

C18_AppendOnly ==
    /\ AddBlockCalled =>
          /\ IsPrefix(pre_blocks, blocks)
          /\ result = "Ok" => blocks = Append(pre_blocks, offered)
          /\ result # "Ok" => blocks = pre_blocks
    /\ RebuildCalled => blocks = pre_blocks

\* a block was appended behind a committed one
C18_Witness ==
    /\ AddBlockCalled
    /\ result = "Ok"
    /\ pre_blocks # <<>>
    /\ Len(blocks) = Len(pre_blocks) + 1
    /\ blocks[Len(blocks)] = offered

(***************************************************************************)
(* C20. Snapshot semantics: verify_transactions resolves every input       *)
(* against the one UTXO map passed in; a call that returns on a block in   *)
(* which a later transaction spends an output that an earlier transaction  *)
(* of the block creates, and that the map does not hold, returns           *)
(* InvalidTransaction.                                                     *)
(***************************************************************************)
\* position pos spends an output created by a transaction before it in b
SpendsEarlierOutput(b, pos) ==
    \E t \in 1..pos[1] - 1 :
        \E j \in 1..Len(b.transactions[t].outputs) :
            OutputHash(b.transactions[t].outputs[j]) = RefAt(b, pos)

SpendsWithinBlock(b, u) ==
    \E pos \in InputPositions(b) :
        SpendsEarlierOutput(b, pos) /\ RefAt(b, pos) \notin DOMAIN u

C20_SnapshotSemantics ==
    (Returned /\ SpendsWithinBlock(offered, utxos)) => result = "InvalidTransaction"

\* a refused block of two transactions, the first valid on the map, the second
\* valid on the map as the first leaves it, which a replay of the block
\* inserts and removes again
C20_Witness ==
    /\ VerifyCalled
    /\ result = "InvalidTransaction"
    /\ Len(offered.transactions) = 2
    /\ Len(offered.transactions[2].inputs) = 1
    /\ SpendsEarlierOutput(offered, <<2, 1>>)
    /\ RefAt(offered, <<2, 1>>) \notin DOMAIN utxos
    /\ verify_transaction(offered.transactions[1], utxos).res = "Ok"
    /\ verify_transaction(offered.transactions[2],
           replay_transactions(utxos, <<offered.transactions[1]>>)).res = "Ok"
    /\ RefAt(offered, <<2, 1>>)
           \notin DOMAIN replay_transactions(utxos, offered.transactions)

====
